---- MODULE Spec2Model ----
(***************************************************************************)
(* A model of papercast_grobid/grobid.py: the GROBIDProcessor, which       *)
(* brings the GROBID service up in its constructor, parses a PDF into a    *)
(* Production (standard or rich strategy), assembles the document text,    *)
(* and converts TEI coordinate attributes into page crops.                 *)
(*                                                                         *)
(* Text is modelled as a sequence of one-character strings (VT, FF, QUOTE, *)
(* BACKSLASH, BACKTICK stand for the one character of that name), a         *)
(* Python float as either a finite decimal num/den, nan or +-inf, and      *)
(* Python's None by a tag next to a value of the usual type.               *)
(***************************************************************************)
EXTENDS Integers, Sequences, FiniteSets, TLC

VARIABLES
    pc,                          \* where the processor object is in its life
    serve_grobid_script,         \* self.serve_grobid_script: "None" or a command
    remove_non_printable_chars,  \* self.remove_non_printable_chars
    grobid,                      \* self.grobid: 0 for None, else the Popen handle
    service_up,                  \* environment: does GET grobid_url succeed now
    popened,                     \* environment: every subprocess handle ever spawned
    terminated,                  \* environment: handles that were sent terminate()
    checks,                      \* the outcomes of _grobid_online(), in order
    sleeps,                      \* how many time.sleep(1) were taken
    ever_up,                     \* environment: the service was reachable at some moment
    up_at_entry,                 \* environment: the service was reachable when __init__ began
    call,                        \* the last call made on the processor and its inputs
    production,                  \* the Production the last call worked on
    raised,                      \* the exception the last call raised, or "none"
    parse_calls,                 \* external parser invocations of the last call
    tei_obj,                     \* a TEI element: its coords attribute
    n_pages,                     \* page count of the PDF at production.pdf.path
    ret,                         \* return value of _get_tei_obj_bbox / _get_tei_obj_img
    soup_formulas,               \* article_soup.find_all("formula")
    soup_figures,                \* article_soup.find_all("figure")
    article_dict,                \* a parsed mapping given to _get_text_from_dict
    text_out                     \* the return value of _get_text_from_dict

vars == <<pc, serve_grobid_script, remove_non_printable_chars, grobid, service_up,
          popened, terminated, checks, sleeps, ever_up, up_at_entry,
          call, production, raised, parse_calls,
          tei_obj, n_pages, ret, soup_formulas, soup_figures, article_dict, text_out>>

lifeVars == <<pc, serve_grobid_script, grobid, service_up, popened, terminated,
              checks, sleeps, ever_up, up_at_entry>>
regionVars == <<tei_obj, n_pages, ret, soup_formulas, soup_figures>>
textVars == <<article_dict, text_out>>
callVars == <<call, production, raised, parse_calls>>

(***************************************************************************)
(* Bounds of the model.                                                    *)
(***************************************************************************)
MaxChecks == 6      \* health checks observed during one construction
MaxFields == 6      \* comma-separated fields of a generated coords attribute
MaxPages == 3       \* pages of the PDF
MaxElems == 2       \* formula (and figure) elements of one document
MaxSections == 2    \* sections of a parsed mapping

(***************************************************************************)
(* Strings.                                                                *)
(***************************************************************************)
RECURSIVE SplitAcc(_, _, _, _)
SplitAcc(s, sep, cur, acc) ==
    IF s = <<>> THEN Append(acc, cur)
    ELSE IF Head(s) = sep
         THEN SplitAcc(Tail(s), sep, <<>>, Append(acc, cur))
         ELSE SplitAcc(Tail(s), sep, Append(cur, Head(s)), acc)

\* str.split(sep) for a one-character separator: "".split(",") is [""]
Split(s, sep) == SplitAcc(s, sep, <<>>, <<>>)

RECURSIVE Join(_, _)
\* sep.join(elems)
Join(elems, sep) ==
    IF elems = <<>> THEN <<>>
    ELSE IF Len(elems) = 1 THEN elems[1]
    ELSE elems[1] \o sep \o Join(Tail(elems), sep)

Digits == <<"0", "1", "2", "3", "4", "5", "6", "7", "8", "9">>
DigitSet == {Digits[i] : i \in 1..10}
DigitVal(c) == (CHOOSE i \in 1..10 : Digits[i] = c) - 1

RECURSIVE DigitsVal(_)
DigitsVal(s) ==
    IF s = <<>> THEN 0
    ELSE DigitsVal(SubSeq(s, 1, Len(s) - 1)) * 10 + DigitVal(s[Len(s)])

RECURSIVE Pow10(_)
Pow10(n) == IF n = 0 THEN 1 ELSE 10 * Pow10(n - 1)

RECURSIVE StripLeft(_)
StripLeft(s) == IF s # <<>> /\ Head(s) = " " THEN StripLeft(Tail(s)) ELSE s

RECURSIVE StripRight(_)
StripRight(s) ==
    IF s # <<>> /\ s[Len(s)] = " " THEN StripRight(SubSeq(s, 1, Len(s) - 1)) ELSE s

(***************************************************************************)
(* Python floats.  float(x) of a field: surrounding blanks are stripped,   *)
(* an optional sign, then nan, inf, infinity, or decimal digits with at    *)
(* most one point and at least one digit.  (Exponents, underscores and     *)
(* upper-case spellings are outside the alphabet the model generates.)     *)
(***************************************************************************)
Fin(n, d) == [k |-> "fin", num |-> n, den |-> d]
NaN == [k |-> "nan", num |-> 0, den |-> 1]
Inf(sign) == [k |-> "inf", num |-> sign, den |-> 1]

FloatOfBody(body, sign) ==
    LET dots == {i \in DOMAIN body : body[i] = "."}
        dot == IF dots = {} THEN Len(body) + 1 ELSE CHOOSE i \in dots : TRUE
        ip == SubSeq(body, 1, dot - 1)
        fp == SubSeq(body, dot + 1, Len(body))
        ds == ip \o fp
    IN  IF body = <<"n", "a", "n">> THEN [ok |-> TRUE, val |-> NaN]
        ELSE IF body \in {<<"i", "n", "f">>, <<"i", "n", "f", "i", "n", "i", "t", "y">>}
             THEN [ok |-> TRUE, val |-> Inf(sign)]
        ELSE IF Cardinality(dots) <= 1 /\ ds # <<>>
                /\ \A i \in DOMAIN ds : ds[i] \in DigitSet
             THEN [ok |-> TRUE, val |-> Fin(sign * DigitsVal(ds), Pow10(Len(fp)))]
        ELSE [ok |-> FALSE, val |-> NaN]     \* ValueError

\* float(s): ok = FALSE stands for the ValueError float() raises
ParseFloat(s) ==
    LET t == StripRight(StripLeft(s))
    IN  IF t # <<>> /\ Head(t) = "-" THEN FloatOfBody(Tail(t), -1)
        ELSE IF t # <<>> /\ Head(t) = "+" THEN FloatOfBody(Tail(t), 1)
        ELSE FloatOfBody(t, 1)

\* np.round on a finite value: to the nearest integer, a tie to the even one
RoundHalfEven(num, den) ==
    LET q == num \div den
        r == num - q * den
    IN  IF 2 * r < den THEN q
        ELSE IF 2 * r > den THEN q + 1
        ELSE IF q % 2 = 0 THEN q ELSE q + 1

\* float(np.round(v)): nan and inf pass through
NpRound(v) == IF v.k = "fin" THEN Fin(RoundHalfEven(v.num, v.den), 1) ELSE v

\* a + b on floats
FAdd(a, b) ==
    IF a.k = "nan" \/ b.k = "nan" THEN NaN
    ELSE IF a.k = "inf" /\ b.k = "inf" THEN (IF a.num = b.num THEN a ELSE NaN)
    ELSE IF a.k = "inf" THEN a
    ELSE IF b.k = "inf" THEN b
    ELSE Fin(a.num * b.den + b.num * a.den, a.den * b.den)

\* int(v): truncation toward zero; nan raises ValueError, inf OverflowError
IntOf(v) ==
    IF v.k = "nan" THEN [err |-> "ValueError", val |-> 0]
    ELSE IF v.k = "inf" THEN [err |-> "OverflowError", val |-> 0]
    ELSE [err |-> "none",
          val |-> IF v.num >= 0 THEN v.num \div v.den ELSE -((-v.num) \div v.den)]

(***************************************************************************)
(* Region location and extraction.                                         *)
(***************************************************************************)
\* the PDFBBox dataclass
PDFBBox(page, x0, y0, x1, y1) == [page |-> page, x0 |-> x0, y0 |-> y0, x1 |-> x1, y1 |-> y1]
NoBBox == PDFBBox(0, NaN, NaN, NaN, NaN)

\* what a call returns: a bbox, None, an image (the 0-based index of the page
\* that was cropped and the crop box), or an exception
RetBBox(b) == [kind |-> "bbox", err |-> "none", bbox |-> b, page_index |-> 0, warned |-> FALSE]
RetNone(w) == [kind |-> "none", err |-> "none", bbox |-> NoBBox, page_index |-> 0, warned |-> w]
RetImg(i, b) == [kind |-> "img", err |-> "none", bbox |-> b, page_index |-> i, warned |-> FALSE]
RetRaise(e) == [kind |-> "raise", err |-> e, bbox |-> NoBBox, page_index |-> 0, warned |-> FALSE]
RetUnset == [kind |-> "unset", err |-> "none", bbox |-> NoBBox, page_index |-> 0, warned |-> FALSE]

\* a TEI element; coords is what tei_obj.get("coords") returns when present
\* (gen records what the attribute was written from: per field its class and,
\* for a finite number, its value in tenths; no operation reads it)
TeiObj(coords, gen) == [has_coords |-> TRUE, coords |-> coords, gen |-> gen]
TeiObjNoCoords == [has_coords |-> FALSE, coords |-> <<>>, gen |-> <<>>]

\* a variant of MakeBBox that rounds after the addition
MakeBBoxRoundAfterAdd(page, x0, y0, width, height) ==
    LET p == IntOf(page)
    IN  IF p.err # "none" THEN RetRaise(p.err)
        ELSE RetBBox(PDFBBox(p.val, NpRound(x0), NpRound(y0),
                             NpRound(FAdd(x0, width)), NpRound(FAdd(y0, height))))

\* PDFBBox(int(page), round(x0), round(y0), round(x0)+round(width), round(y0)+round(height));
\* the arguments are evaluated left to right, so int(page) raises first
MakeBBox(page, x0, y0, width, height) ==
    LET p == IntOf(page)
    IN  IF p.err # "none" THEN RetRaise(p.err)
        ELSE RetBBox(PDFBBox(p.val, NpRound(x0), NpRound(y0),
                             FAdd(NpRound(x0), NpRound(width)),
                             FAdd(NpRound(y0), NpRound(height))))

\* lines 119-133, fl being [float(x) for x in coords] with ok = FALSE where
\* float raised
BBoxOfFloats(fl) ==
    IF \E i \in 1..5 : ~fl[i].ok THEN RetNone(TRUE)
    ELSE MakeBBox(fl[1].val, fl[2].val, fl[3].val, fl[4].val, fl[5].val)

\* lines 113-118, coords being tei_obj.get("coords").split(",")
BBoxOfFields(coords) ==
    IF Len(coords) # 5 THEN RetNone(TRUE)
    ELSE BBoxOfFloats([i \in 1..5 |-> ParseFloat(coords[i])])

GetTeiObjBbox(obj) ==
    IF ~obj.has_coords THEN RetRaise("AttributeError")   \* None.split
    ELSE BBoxOfFields(Split(obj.coords, ","))

\* pages[i] on a Python list of n pages: a negative i counts from the end
ListIndex(n, i) ==
    IF 0 <= i /\ i < n THEN [err |-> "none", at |-> i]
    ELSE IF -n <= i /\ i < 0 THEN [err |-> "none", at |-> n + i]
    ELSE [err |-> "IndexError", at |-> 0]

\* page.crop(image_bbox): pdfplumber refuses (ValueError) a box that is not a
\* proper rectangle inside the page; the page is taken to be large enough for
\* every box that starts at non-negative coordinates
CropAccepts(bbox) ==
    /\ \A v \in {bbox.x0, bbox.y0, bbox.x1, bbox.y1} : v.k = "fin"
    /\ bbox.x0.num >= 0
    /\ bbox.y0.num >= 0
    /\ bbox.x1.num > bbox.x0.num
    /\ bbox.y1.num > bbox.y0.num

\* the pdfplumber branch: pages[bbox.page - 1].crop(bbox).to_image(resolution=300)
CropPage(bbox, npages) ==
    LET sel == ListIndex(npages, bbox.page - 1)
    IN  IF sel.err # "none" THEN RetRaise(sel.err)
        ELSE IF ~CropAccepts(bbox) THEN RetRaise("ValueError")
        ELSE RetImg(sel.at, bbox)

\* lines 139-160, b being what _get_tei_obj_bbox returned or raised
ImgOfBBox(b, npages, method) ==
    IF b.kind = "raise" THEN b
    ELSE IF b.kind = "none" THEN RetNone(b.warned)
    ELSE IF method = "pdfplumber" THEN CropPage(b.bbox, npages)
    ELSE RetRaise("NotImplementedError")

GetTeiObjImg(obj, npages, method) == ImgOfBBox(GetTeiObjBbox(obj), npages, method)

\* a for-loop that appends every return value: the first exception ends it,
\* leaving the list as far as it got
UpToFirstRaise(rs) ==
    LET bad == {i \in DOMAIN rs : rs[i].kind = "raise"}
        stop == IF bad = {} THEN Len(rs) + 1
                ELSE CHOOSE i \in bad : \A j \in bad : i <= j
    IN  [err |-> IF bad = {} THEN "none" ELSE rs[stop].err,
         items |-> SubSeq(rs, 1, stop - 1)]

\* one of the two for-loops of _get_formula_figure_imgs
ImgLoop(elems, npages) ==
    UpToFirstRaise([i \in DOMAIN elems |-> GetTeiObjImg(elems[i], npages, "pdfplumber")])

\* lines 163-172, eq and fg being the outcomes of the two loops; the second
\* loop is not reached when the first raised
SetImgs(prod, eq, fg) ==
    IF eq.err # "none"
    THEN [err |-> eq.err,
          prod |-> [prod EXCEPT !.attrs = @ \cup {"equations"}, !.equations = eq.items]]
    ELSE [err |-> fg.err,
          prod |-> [prod EXCEPT !.attrs = @ \cup {"equations", "figures"},
                                !.equations = eq.items, !.figures = fg.items]]

GetFormulaFigureImgs(prod, formulas, figures, npages) ==
    SetImgs(prod, ImgLoop(formulas, npages), ImgLoop(figures, npages))

(***************************************************************************)
(* Text assembly.                                                          *)
(***************************************************************************)
\* string.printable: digits, ascii_letters, punctuation and whitespace
Printable ==
    DigitSet
    \cup {"a", "b", "c", "d", "e", "f", "g", "h", "i", "j", "k", "l", "m",
          "n", "o", "p", "q", "r", "s", "t", "u", "v", "w", "x", "y", "z"}
    \cup {"A", "B", "C", "D", "E", "F", "G", "H", "I", "J", "K", "L", "M",
          "N", "O", "P", "Q", "R", "S", "T", "U", "V", "W", "X", "Y", "Z"}
    \cup {"!", "QUOTE", "#", "$", "%", "&", "'", "(", ")", "*", "+", ",", "-", ".",
          "/", ":", ";", "<", "=", ">", "?", "@", "[", "BACKSLASH", "]", "^", "_", "BACKTICK",
          "{", "|", "}", "~"}
    \cup {" ", "\t", "\n", "\r", "VT", "FF"}

\* a parsed mapping (article_dict); authors is an optional key
ArticleDict(title, abstract, has_authors, authors, sections) ==
    [title |-> title, abstract |-> abstract, has_authors |-> has_authors,
     authors |-> authors, sections |-> sections]
NoDict == ArticleDict(<<>>, <<>>, FALSE, <<>>, <<>>)

RECURSIVE SectionElements(_)
\* the for-loop appending section["heading"], section["text"]
SectionElements(sections) ==
    IF sections = <<>> THEN <<>>
    ELSE <<sections[1].heading, sections[1].text>> \o SectionElements(Tail(sections))

\* a variant of GetTextFromDict that joins with a single newline
GetTextFromDictOneNewline(remove, d) ==
    LET text_elements == <<d.title, d.abstract>> \o SectionElements(d.sections)
        text == Join(text_elements, <<"\n">>)
    IN  IF remove THEN SelectSeq(text, LAMBDA x : x \in Printable) ELSE text

GetTextFromDict(remove, d) ==
    LET text_elements == <<d.title, d.abstract>> \o SectionElements(d.sections)
        text == Join(text_elements, <<"\n", "\n">>)
    IN  IF remove THEN SelectSeq(text, LAMBDA x : x \in Printable) ELSE text

(***************************************************************************)
(* The Production and the two extraction strategies.                       *)
(***************************************************************************)
NoMetadata ==
    [outpath |-> "", title |-> <<>>, has_authors |-> FALSE, authors |-> <<>>,
     doi |-> "None", arxiv_id |-> "None", description |-> <<>>]

\* attrs are the attributes set on the object; the other fields hold their values
NewProduction(attrs) ==
    [attrs |-> attrs, pdf_path |-> "paper.pdf", metadata |-> NoMetadata, text |-> <<>>,
     article_dict |-> NoDict, authors |-> <<>>, title |-> <<>>, abstract |-> <<>>,
     equations |-> <<>>, figures |-> <<>>]

MissingInput == "AttributeError: Input object does not have attribute pdf"
CouldNotParse == "Exception: Could not parse pdf"
NoneHasNoFind == "AttributeError: NoneType object has no attribute find"
NoneNotSubscriptable == "TypeError: NoneType object is not subscriptable"

Outcome(err, prod, n) == [err |-> err, prod |-> prod, parse_calls |-> n]

\* _extract; parsed is what parse_pdf_to_dict returned
Extract(remove, prod, parsed) ==
    IF parsed.is_none THEN Outcome(CouldNotParse, prod, 1)
    ELSE LET d == parsed.val
             metadata == [outpath |-> prod.pdf_path, title |-> d.title,
                          has_authors |-> d.has_authors,
                          authors |-> IF d.has_authors THEN Split(d.authors, ";") ELSE <<>>,
                          doi |-> "None", arxiv_id |-> "None", description |-> d.abstract]
             text == GetTextFromDict(remove, d)
         IN  Outcome("none",
                     [prod EXCEPT !.attrs = @ \cup {"metadata", "text", "article_dict"},
                                  !.metadata = metadata, !.text = text, !.article_dict = d],
                     1)

\* _extract_rich; soup is what parse_pdf(soup=True) returned, parsed what
\* parse_pdf_to_dict returned: both calls are made before anything else
ExtractRich(remove, prod, soup, parsed) ==
    IF soup.is_none \/ \E i \in DOMAIN soup.authors : ~soup.authors[i].named
    THEN Outcome(NoneHasNoFind, prod, 2)
    ELSE LET authors == [i \in DOMAIN soup.authors |->
                            [first_name |-> soup.authors[i].forename,
                             last_name |-> soup.authors[i].surname]]
             p1 == [prod EXCEPT !.attrs = @ \cup {"authors"}, !.authors = authors]
         IN  IF parsed.is_none THEN Outcome(NoneNotSubscriptable, p1, 2)
             ELSE LET d == parsed.val
                      text == GetTextFromDict(remove, d)
                  IN  Outcome("none",
                              [p1 EXCEPT !.attrs = @ \cup {"title", "abstract", "text"},
                                         !.title = d.title, !.abstract = d.abstract,
                                         !.text = text],
                              2)

\* a variant of ProcessCall without the input_types check
ProcessCallNoCheck(remove, prod, method, soup, parsed) ==
    IF method = "rich" THEN ExtractRich(remove, prod, soup, parsed)
    ELSE Extract(remove, prod, parsed)

\* process(input, method)
ProcessCall(remove, prod, method, soup, parsed) ==
    IF "pdf" \notin prod.attrs THEN Outcome(MissingInput, prod, 0)
    ELSE IF method = "rich" THEN ExtractRich(remove, prod, soup, parsed)
    ELSE Extract(remove, prod, parsed)

(***************************************************************************)
(* The processor's life: __init__, process calls, __del__.                 *)
(***************************************************************************)
Call(op, has_pdf, method, soup_none, dict_none) ==
    [op |-> op, has_pdf |-> has_pdf, method |-> method,
     soup_none |-> soup_none, dict_none |-> dict_none]
NoCall == Call("none", FALSE, "None", FALSE, FALSE)

SeqsUpTo(S, n) == UNION {[1..k -> S] : k \in 0..n}

\* the configurations a processor is constructed with
Scripts == {"None", "serve_grobid.sh"}

\* what the external parser can return for the mapping
ProcDicts ==
    {ArticleDict(<<"T">>, <<"A">>, TRUE, <<"A", " ", "B", ";", "C", " ", "D">>,
                 <<[heading |-> <<"H", "1">>, text |-> <<"B", "1">>]>>),
     ArticleDict(<<"T", "EACUTE">>, <<"A">>, FALSE, <<>>, <<>>)}
ParseResults ==
    {[is_none |-> TRUE, val |-> NoDict]} \cup {[is_none |-> FALSE, val |-> d] : d \in ProcDicts}

\* what the external parser can return for the annotated tree
SoupAuthor(named, forename, surname) ==
    [named |-> named, forename |-> forename, surname |-> surname]
Soups ==
    {[is_none |-> TRUE, authors |-> <<>>],
     [is_none |-> FALSE, authors |-> <<>>],
     [is_none |-> FALSE, authors |-> <<SoupAuthor(TRUE, <<"A">>, <<"B">>)>>],
     [is_none |-> FALSE, authors |-> <<SoupAuthor(TRUE, <<"A">>, <<"B">>),
                                       SoupAuthor(FALSE, <<>>, <<>>)>>]}

Methods == {"None", "rich"}

\* _grobid_online(): True iff urlopen(grobid_url) does not raise
GrobidOnline == service_up

\* a variant of Construct that enters the loop whatever the script is
ConstructAlwaysChecks ==
    /\ pc = "new"
    /\ grobid' = 0
    /\ up_at_entry' = service_up
    /\ pc' = "cond"
    /\ UNCHANGED <<serve_grobid_script, remove_non_printable_chars, service_up, popened,
                   terminated, checks, sleeps, ever_up>>
    /\ UNCHANGED <<callVars, regionVars, textVars>>

\* lines 51-56: the fields are set, then the loop is entered only with a script
Construct ==
    /\ pc = "new"
    /\ grobid' = 0
    /\ up_at_entry' = service_up
    /\ pc' = IF serve_grobid_script # "None" THEN "cond" ELSE "logger"
    /\ UNCHANGED <<serve_grobid_script, remove_non_printable_chars, service_up, popened,
                   terminated, checks, sleeps, ever_up>>
    /\ UNCHANGED <<callVars, regionVars, textVars>>

\* a variant of Cond with the loop condition inverted
CondInverted ==
    /\ pc = "cond"
    /\ Len(checks) < MaxChecks
    /\ checks' = Append(checks, GrobidOnline)
    /\ pc' = IF GrobidOnline THEN "start" ELSE "logger"
    /\ UNCHANGED <<serve_grobid_script, remove_non_printable_chars, grobid, service_up,
                   popened, terminated, sleeps, ever_up, up_at_entry>>
    /\ UNCHANGED <<callVars, regionVars, textVars>>

\* line 57: while not self._grobid_online()
Cond ==
    /\ pc = "cond"
    /\ Len(checks) < MaxChecks
    /\ checks' = Append(checks, GrobidOnline)
    /\ pc' = IF GrobidOnline THEN "logger" ELSE "start"
    /\ UNCHANGED <<serve_grobid_script, remove_non_printable_chars, grobid, service_up,
                   popened, terminated, sleeps, ever_up, up_at_entry>>
    /\ UNCHANGED <<callVars, regionVars, textVars>>

\* lines 58-59 and 208-211: self.grobid = subprocess.Popen(...)
StartGrobid ==
    /\ pc = "start"
    /\ grobid' = Cardinality(popened) + 1
    /\ popened' = popened \cup {Cardinality(popened) + 1}
    /\ pc' = "poll"
    /\ UNCHANGED <<serve_grobid_script, remove_non_printable_chars, service_up,
                   terminated, checks, sleeps, ever_up, up_at_entry>>
    /\ UNCHANGED <<callVars, regionVars, textVars>>

\* line 212: while not self._grobid_online(); on True _start_grobid returns
\* and line 57 is evaluated again
Poll ==
    /\ pc = "poll"
    /\ Len(checks) < MaxChecks
    /\ checks' = Append(checks, GrobidOnline)
    /\ pc' = IF GrobidOnline THEN "cond" ELSE "sleep"
    /\ UNCHANGED <<serve_grobid_script, remove_non_printable_chars, grobid, service_up,
                   popened, terminated, sleeps, ever_up, up_at_entry>>
    /\ UNCHANGED <<callVars, regionVars, textVars>>

\* line 213: time.sleep(1)
Sleep ==
    /\ pc = "sleep"
    /\ sleeps' = sleeps + 1
    /\ pc' = "poll"
    /\ UNCHANGED <<serve_grobid_script, remove_non_printable_chars, grobid, service_up,
                   popened, terminated, checks, ever_up, up_at_entry>>
    /\ UNCHANGED <<callVars, regionVars, textVars>>

\* line 61: self.init_logger(); __init__ returns
InitLogger ==
    /\ pc = "logger"
    /\ pc' = "ready"
    /\ UNCHANGED <<serve_grobid_script, remove_non_printable_chars, grobid, service_up,
                   popened, terminated, checks, sleeps, ever_up, up_at_entry>>
    /\ UNCHANGED <<callVars, regionVars, textVars>>

\* process(input, method) on a constructed processor, with a fresh Production
Process ==
    /\ pc = "ready"
    /\ \E has_pdf \in BOOLEAN, method \in Methods, soup \in Soups, parsed \in ParseResults :
         LET input == NewProduction(IF has_pdf THEN {"pdf"} ELSE {})
             out == ProcessCall(remove_non_printable_chars, input, method, soup, parsed)
         IN  /\ call' = Call("process", has_pdf, method, soup.is_none, parsed.is_none)
             /\ production' = out.prod
             /\ raised' = out.err
             /\ parse_calls' = out.parse_calls
    /\ UNCHANGED <<lifeVars, remove_non_printable_chars, regionVars, textVars>>

\* __del__
Del ==
    /\ pc = "ready"
    /\ terminated' = IF grobid # 0 THEN terminated \cup {grobid} ELSE terminated
    /\ pc' = "dead"
    /\ UNCHANGED <<serve_grobid_script, remove_non_printable_chars, grobid, service_up,
                   popened, checks, sleeps, ever_up, up_at_entry>>
    /\ UNCHANGED <<callVars, regionVars, textVars>>

\* environment: the service becomes reachable, or stops being reachable
ServiceFlip ==
    /\ pc # "dead"
    /\ service_up' = ~service_up
    /\ ever_up' = (ever_up \/ ~service_up)
    /\ UNCHANGED <<pc, serve_grobid_script, remove_non_printable_chars, grobid, popened,
                   terminated, checks, sleeps, up_at_entry>>
    /\ UNCHANGED <<callVars, regionVars, textVars>>

IdleRegion ==
    /\ tei_obj = TeiObjNoCoords
    /\ n_pages = 1
    /\ ret = RetUnset
    /\ soup_formulas = <<>>
    /\ soup_figures = <<>>

IdleText ==
    /\ article_dict = NoDict
    /\ text_out = <<>>

IdleCall ==
    /\ call = NoCall
    /\ production = NewProduction({})
    /\ raised = "none"
    /\ parse_calls = 0

IdleLife ==
    /\ pc = "ready"
    /\ serve_grobid_script = "None"
    /\ grobid = 0
    /\ service_up = TRUE
    /\ popened = {}
    /\ terminated = {}
    /\ checks = <<>>
    /\ sleeps = 0
    /\ ever_up = TRUE
    /\ up_at_entry = TRUE

Init ==
    /\ pc = "new"
    /\ serve_grobid_script \in Scripts
    /\ remove_non_printable_chars \in BOOLEAN
    /\ grobid = 0
    /\ service_up \in BOOLEAN
    /\ popened = {}
    /\ terminated = {}
    /\ checks = <<>>
    /\ sleeps = 0
    /\ ever_up = service_up
    /\ up_at_entry = FALSE
    /\ IdleCall
    /\ IdleRegion
    /\ IdleText

Next ==
    \/ Construct
    \/ Cond
    \/ StartGrobid
    \/ Poll
    \/ Sleep
    \/ InitLogger
    \/ Process
    \/ Del
    \/ ServiceFlip

Spec == Init /\ [][Next]_vars

(***************************************************************************)
(* Region location and extraction on generated coordinate attributes.      *)
(***************************************************************************)
\* a field as written into a coords attribute, with the number it denotes
Tok(s, cls, tenths) == [s |-> s, cls |-> cls, tenths |-> tenths]

PageToks ==
    {Tok(<<"1">>, "num", 10), Tok(<<"2">>, "num", 20), Tok(<<"3">>, "num", 30),
     Tok(<<"4">>, "num", 40), Tok(<<"0">>, "num", 0), Tok(<<"-", "1">>, "num", -10),
     Tok(<<"1", ".", "7">>, "num", 17), Tok(<<"n", "a", "n">>, "nan", 0),
     Tok(<<"i", "n", "f">>, "inf", 0), Tok(<<"x">>, "bad", 0)}
X0Toks ==
    {Tok(<<"1", "0", ".", "2">>, "num", 102), Tok(<<"1", "0", ".", "5">>, "num", 105),
     Tok(<<"1", "1", ".", "5">>, "num", 115), Tok(<<"-", "3">>, "num", -30),
     Tok(<<"x">>, "bad", 0)}
Y0Toks ==
    {Tok(<<"2", "0", ".", "7">>, "num", 207), Tok(<<"0">>, "num", 0),
     Tok(<<"n", "a", "n">>, "nan", 0)}
WidthToks ==
    {Tok(<<"3", "0">>, "num", 300), Tok(<<"0", ".", "4">>, "num", 4),
     Tok(<<"-", "5">>, "num", -50), Tok(<<".", "5">>, "num", 5), Tok(<<>>, "bad", 0)}
HeightToks ==
    {Tok(<<"4", "0">>, "num", 400), Tok(<<"2", ".", "5">>, "num", 25),
     Tok(<<" ", "7", " ">>, "num", 70)}
ShortToks == {Tok(<<"1">>, "num", 10), Tok(<<"1", "0">>, "num", 100)}

\* the element whose coords attribute is the fields joined by commas
TeiOfToks(toks) ==
    TeiObj(Join([i \in DOMAIN toks |-> toks[i].s], <<",">>),
           [i \in DOMAIN toks |-> [cls |-> toks[i].cls, tenths |-> toks[i].tenths]])

FiveFieldObjs ==
    {TeiOfToks(<<p, x, y, w, h>>) :
        p \in PageToks, x \in X0Toks, y \in Y0Toks, w \in WidthToks, h \in HeightToks}
OtherCountObjs ==
    {TeiOfToks(t) : t \in UNION {[1..k -> ShortToks] : k \in (1..MaxFields) \ {5}}}
RegionObjs == FiveFieldObjs \cup OtherCountObjs \cup {TeiObjNoCoords}

ImgMethods == {"pdfplumber", "pdf2image", "other"}

\* _get_tei_obj_bbox(tei_obj)
BBoxCall ==
    /\ ret' = GetTeiObjBbox(tei_obj)
    /\ call' = Call("bbox", TRUE, "None", FALSE, FALSE)
    /\ UNCHANGED <<lifeVars, remove_non_printable_chars, production, raised, parse_calls,
                   tei_obj, n_pages, soup_formulas, soup_figures, textVars>>

\* _get_tei_obj_img(tei_obj, pdf_path, method)
ImgCall ==
    /\ \E method \in ImgMethods :
         /\ ret' = GetTeiObjImg(tei_obj, n_pages, method)
         /\ call' = Call("img", TRUE, method, FALSE, FALSE)
    /\ UNCHANGED <<lifeVars, remove_non_printable_chars, production, raised, parse_calls,
                   tei_obj, n_pages, soup_formulas, soup_figures, textVars>>

InitRegion ==
    /\ IdleLife
    /\ remove_non_printable_chars = TRUE
    /\ IdleCall
    /\ IdleText
    /\ tei_obj \in RegionObjs
    /\ n_pages \in 1..MaxPages
    /\ ret = RetUnset
    /\ soup_formulas = <<>>
    /\ soup_figures = <<>>

NextRegion ==
    \/ BBoxCall
    \/ ImgCall

SpecRegion == InitRegion /\ [][NextRegion]_vars

(***************************************************************************)
(* Figure and equation extraction over a document's elements.              *)
(***************************************************************************)
ElemToks ==
    {<<Tok(<<"1">>, "num", 10), Tok(<<"1", "0">>, "num", 100), Tok(<<"2", "0">>, "num", 200),
       Tok(<<"3", "0">>, "num", 300), Tok(<<"4", "0">>, "num", 400)>>,
     <<Tok(<<"2">>, "num", 20), Tok(<<"5">>, "num", 50), Tok(<<"5">>, "num", 50),
       Tok(<<"5">>, "num", 50), Tok(<<"5">>, "num", 50)>>,
     <<Tok(<<"1">>, "num", 10), Tok(<<"1", "0">>, "num", 100), Tok(<<"2", "0">>, "num", 200),
       Tok(<<"3", "0">>, "num", 300)>>,
     <<Tok(<<"9">>, "num", 90), Tok(<<"1", "0">>, "num", 100), Tok(<<"2", "0">>, "num", 200),
       Tok(<<"3", "0">>, "num", 300), Tok(<<"4", "0">>, "num", 400)>>}
ElemObjs == {TeiOfToks(t) : t \in ElemToks}

\* _get_formula_figure_imgs(production, article_soup)
FormulaFigureImgsCall ==
    /\ call.op = "none"
    /\ LET out == GetFormulaFigureImgs(production, soup_formulas, soup_figures, n_pages)
       IN  /\ production' = out.prod
           /\ raised' = out.err
    /\ call' = Call("imgs", TRUE, "None", FALSE, FALSE)
    /\ UNCHANGED <<lifeVars, remove_non_printable_chars, parse_calls, tei_obj, n_pages, ret,
                   soup_formulas, soup_figures, textVars>>

InitImgs ==
    /\ IdleLife
    /\ remove_non_printable_chars = TRUE
    /\ call = NoCall
    /\ production = NewProduction({"pdf"})
    /\ raised = "none"
    /\ parse_calls = 0
    /\ IdleText
    /\ tei_obj = TeiObjNoCoords
    /\ ret = RetUnset
    /\ n_pages \in 2..MaxPages
    /\ soup_formulas \in SeqsUpTo(ElemObjs, MaxElems)
    /\ soup_figures \in SeqsUpTo(ElemObjs, MaxElems)

NextImgs == FormulaFigureImgsCall

SpecImgs == InitImgs /\ [][NextImgs]_vars

(***************************************************************************)
(* Text assembly on generated mappings.                                    *)
(***************************************************************************)
\* EACUTE (an accented letter) and NUL (a control character) are not printable
Titles == {<<"T">>, <<"EACUTE", "T", "NUL">>, <<>>}
Abstracts == {<<"A">>, <<"A", "\n", "EACUTE">>}
SectionSet ==
    {[heading |-> h, text |-> b] :
        h \in {<<"H", "1">>, <<"EACUTE">>}, b \in {<<"B", "1">>, <<"b", " ", "NUL">>}}
TextDicts ==
    {ArticleDict(t, a, FALSE, <<>>, ss) :
        t \in Titles, a \in Abstracts, ss \in SeqsUpTo(SectionSet, MaxSections)}

\* _get_text_from_dict(article_dict)
TextCall ==
    /\ call.op = "none"
    /\ text_out' = GetTextFromDict(remove_non_printable_chars, article_dict)
    /\ call' = Call("text", TRUE, "None", FALSE, FALSE)
    /\ UNCHANGED <<lifeVars, remove_non_printable_chars, production, raised, parse_calls,
                   regionVars, article_dict>>

InitText ==
    /\ IdleLife
    /\ remove_non_printable_chars \in BOOLEAN
    /\ IdleCall
    /\ IdleRegion
    /\ article_dict \in TextDicts
    /\ text_out = <<>>

NextText == TextCall

SpecText == InitText /\ [][NextText]_vars

(***************************************************************************)
(* Properties.                                                             *)
(***************************************************************************)
Abs(n) == IF n < 0 THEN -n ELSE n

HealthyAtEntry ==
    IF serve_grobid_script = "None" THEN pc # "new" /\ up_at_entry
    ELSE checks # <<>> /\ checks[1]

\* C2: when the service is reachable as the constructor runs (its first health
\* check succeeds), the constructor is past its loop after at most that one
\* check, with no subprocess spawned, self.grobid None and no sleep taken.
C2_HealthyReturnsImmediately ==
    HealthyAtEntry =>
        /\ pc \in {"logger", "ready", "dead"}
        /\ Len(checks) <= 1
        /\ grobid = 0
        /\ popened = {}
        /\ sleeps = 0

C2_Witness ==
    pc = "ready" /\ serve_grobid_script # "None" /\ checks = <<TRUE>> /\ popened = {}

\* C3: process on a Production without the pdf attribute raises the
\* missing-input error in either mode, with the parser never invoked and the
\* Production left as it was given.
C3_MissingInputBeforeWork ==
    (call.op = "process" /\ ~call.has_pdf) =>
        /\ raised = MissingInput
        /\ parse_calls = 0
        /\ production = NewProduction({})

C3_Witness ==
    call.op = "process" /\ ~call.has_pdf /\ call.method = "rich" /\ raised = MissingInput

OutputFields == {"metadata", "text", "article_dict", "authors", "title", "abstract"}

\* C4 as stated: when the parser yields no mapping, process raises the parse
\* error in either mode and no output field of the Production is written.
C4_NoResultRaisesParseError ==
    (call.op = "process" /\ call.has_pdf /\ call.dict_none) =>
        /\ raised = CouldNotParse
        /\ production.attrs \cap OutputFields = {}

\* C10 as stated: after teardown every subprocess the manager spawned has been
\* sent terminate, and the manager never spawned more than one.
C10_TeardownTerminatesEverySpawn ==
    /\ pc = "dead" => terminated = popened
    /\ Cardinality(popened) <= 1

\* the number a generated field denotes is finite
NumField(g) == g.cls = "num"
FiveNumeric(obj) ==
    obj.has_coords /\ Len(obj.gen) = 5 /\ \A i \in 1..5 : NumField(obj.gen[i])

\* C5 as stated: on a coords string _get_tei_obj_bbox never raises, and it
\* returns None with a warning when the field count is not 5 or a field is
\* not numeric.
C5_BBoxNeverRaises ==
    (call.op = "bbox" /\ tei_obj.has_coords) =>
        /\ ret.kind # "raise"
        /\ (Len(tei_obj.gen) # 5 \/ \E i \in DOMAIN tei_obj.gen : tei_obj.gen[i].cls = "bad")
              => (ret.kind = "none" /\ ret.warned)

\* n is an integer nearest to tenths/10
IsNearest(n, tenths) == 2 * Abs(10 * n - tenths) <= 10

ExampleCoords ==
    <<"1", ",", "1", "0", ".", "2", ",", "2", "0", ".", "7", ",", "3", "0", ",", "4", "0">>

\* C6: on five finite numeric fields page,x0,y0,width,height the bbox has the
\* page (for an integral page field), x0 and y0 rounded to a nearest integer,
\* x1 = x0 + a nearest integer to width, y1 = y0 + a nearest integer to height,
\* hence x1 >= x0 and y1 >= y0 for non-negative width and height; and
\* "1,10.2,20.7,30,40" gives (1, 10, 21, 40, 61).
C6_BBoxRoundsThenAdds ==
    (call.op = "bbox" /\ FiveNumeric(tei_obj)) =>
        /\ ret.kind = "bbox"
        /\ LET b == ret.bbox
               g == tei_obj.gen
           IN  /\ \A v \in {b.x0, b.y0, b.x1, b.y1} : v.k = "fin" /\ v.den = 1
               /\ g[1].tenths % 10 = 0 => b.page * 10 = g[1].tenths
               /\ IsNearest(b.x0.num, g[2].tenths)
               /\ IsNearest(b.y0.num, g[3].tenths)
               /\ IsNearest(b.x1.num - b.x0.num, g[4].tenths)
               /\ IsNearest(b.y1.num - b.y0.num, g[5].tenths)
               /\ g[4].tenths >= 0 => b.x1.num >= b.x0.num
               /\ g[5].tenths >= 0 => b.y1.num >= b.y0.num
        /\ tei_obj.coords = ExampleCoords =>
               ret.bbox = PDFBBox(1, Fin(10, 1), Fin(21, 1), Fin(40, 1), Fin(61, 1))

C6_Witness ==
    /\ call.op = "bbox"
    /\ tei_obj.coords = ExampleCoords
    /\ ret.kind = "bbox"
    /\ ret.bbox.x1 = Fin(40, 1)

\* the page a generated element refers to, for an integral page field
GenPage(obj) == obj.gen[1].tenths \div 10
IntegralPage(obj) == FiveNumeric(obj) /\ obj.gen[1].tenths % 10 = 0

\* C7 as stated: where the crop box itself is accepted, the crop is of page
\* bbox.page - 1, and a page outside 1..pageCount (0 and negative pages too)
\* raises an index error instead of returning an image of some other page.
C7_PageOutOfRangeRaises ==
    (/\ call.op = "img"
     /\ call.method = "pdfplumber"
     /\ IntegralPage(tei_obj)
     /\ ~(ret.kind = "raise" /\ ret.err = "ValueError")) =>
        IF GenPage(tei_obj) \in 1..n_pages
        THEN ret.kind = "img" /\ ret.page_index = GenPage(tei_obj) - 1
        ELSE ret.kind = "raise" /\ ret.err \in {"PageIndexError", "IndexError"}

\* an element whose crop exists: five numeric fields and a page of the PDF
GoodElem(obj) == IntegralPage(obj) /\ GenPage(obj) \in 1..n_pages

SkippedBad(items, elems) ==
    LET good == SelectSeq(elems, GoodElem)
    IN  /\ Len(items) = Len(good)
        /\ \A i \in DOMAIN items :
              items[i].kind = "img" /\ items[i].page_index = GenPage(good[i]) - 1

\* C8 as stated: figure/equation extraction completes whatever the elements
\* are, and both lists hold exactly the crops of the good elements, in order,
\* with no entry for a failed element.
C8_BadElementsSkipped ==
    call.op = "imgs" =>
        /\ raised = "none"
        /\ {"equations", "figures"} \subseteq production.attrs
        /\ SkippedBad(production.equations, soup_formulas)
        /\ SkippedBad(production.figures, soup_figures)

NotPrintableHere == {"EACUTE", "NUL"}

RECURSIVE SectionsText(_)
SectionsText(ss) ==
    IF ss = <<>> THEN <<>>
    ELSE <<"\n", "\n">> \o ss[1].heading \o <<"\n", "\n">> \o ss[1].text
         \o SectionsText(Tail(ss))

\* title, abstract, then heading and body of each section, two newlines between
ExpectedText(d) == d.title \o <<"\n", "\n">> \o d.abstract \o SectionsText(d.sections)

RECURSIVE IsSubseq(_, _)
IsSubseq(r, u) ==
    IF r = <<>> THEN TRUE
    ELSE IF u = <<>> THEN FALSE
    ELSE IF Head(r) = Head(u) THEN IsSubseq(Tail(r), Tail(u))
    ELSE IsSubseq(r, Tail(u))

ScenarioDict ==
    ArticleDict(<<"T">>, <<"A">>, FALSE, <<>>, <<[heading |-> <<"H", "1">>, text |-> <<"B", "1">>]>>)
ScenarioText == <<"T", "\n", "\n", "A", "\n", "\n", "H", "1", "\n", "\n", "B", "1">>

\* C9: with filtering off the text is title, abstract, then each section's
\* heading and body in order, two newlines between consecutive elements (the
\* scenario gives T\n\nA\n\nH1\n\nB1); with filtering on it is that string
\* with exactly the non-printable characters removed, the rest in order.
C9_TextAssembly ==
    call.op = "text" =>
        LET e == ExpectedText(article_dict)
        IN  /\ ~remove_non_printable_chars => text_out = e
            /\ remove_non_printable_chars =>
                  /\ \A i \in DOMAIN text_out : text_out[i] \notin NotPrintableHere
                  /\ IsSubseq(text_out, e)
                  /\ Len(text_out) = Cardinality({i \in DOMAIN e : e[i] \notin NotPrintableHere})
            /\ (article_dict = ScenarioDict /\ ~remove_non_printable_chars)
                  => text_out = ScenarioText

C9_Witness ==
    /\ call.op = "text"
    /\ article_dict = ScenarioDict
    /\ ~remove_non_printable_chars
    /\ text_out = ScenarioText

====
